---- MODULE Spec2Model ----
(***************************************************************************)
(* A model of ArgumentParser (src/argparse.hpp).                           *)
(*                                                                         *)
(* Strings are sequences of one-character strings, so that size(),         *)
(* operator[], delimit() and verify() are computed as the code computes    *)
(* them.  The registry is the code's four containers (index_, arguments_,  *)
(* variables_, required_) plus the scalar members.  Every public member    *)
(* function is one action.  `last' records the most recent call and its    *)
(* outcome; `declared' records the default each declaration was given.     *)
(* Both are history variables: the code never reads them.                  *)
(***************************************************************************)
EXTENDS Integers, Sequences, FiniteSets, TLC

VARIABLES index_, ignore_first_, use_exceptions_, required_, app_name_,
          final_name_, arguments_, variables_, declared, last, exited

vars == <<index_, ignore_first_, use_exceptions_, required_, app_name_,
          final_name_, arguments_, variables_, declared, last, exited>>

(***************************************************************************)
(* Bounds                                                                  *)
(***************************************************************************)
MaxArgs == 2
MaxArgv == 2
MaxOrderArgs == 3
MaxOrderArgv == 3
MaxWalkArgs == 2
MaxWalkArgv == 3

(***************************************************************************)
(* Character codes of the two variable-arity markers: nargs is a char, so  *)
(* '+' and '*' are the numbers 43 and 42.                                  *)
(***************************************************************************)
Plus == 43
Star == 42

Min(a, b) == IF a < b THEN a ELSE b
Max(a, b) == IF a < b THEN b ELSE a

Empty == <<>>

(***************************************************************************)
(* The names and tokens the calls are made with.                           *)
(***************************************************************************)
DashA == <<"-", "a">>
DashB == <<"-", "b">>
DashV == <<"-", "v">>
DashN == <<"-", "n">>
Count == <<"-", "-", "c", "t">>
BadShort == <<"a", "b">>
BadLong == <<"-", "a", "b", "c">>
FileName == <<"f", "i">>
DashFile == <<"-", "-", "f", "i">>
DefaultD == <<"d">>
Default7 == <<"7">>
Five == <<"5">>
Prog == <<"b", "/", "p">>
AppP == <<"p">>

(***************************************************************************)
(* Static helpers                                                          *)
(***************************************************************************)
delimit(name) == [i \in 1..Min(Len(name), 2) |-> "-"] \o name

strip(name) ==
    LET b1 == IF Len(name) > 0 /\ name[1] = "-" THEN 1 ELSE 0
        b2 == IF Len(name) > 3 /\ name[2] = "-" THEN 1 ELSE 0
    IN SubSeq(name, b1 + b2 + 1, Len(name))

verifyFails(name) ==
    \/ name = Empty
    \/ (Len(name) = 2 /\ name[1] # "-")
    \/ Len(name) = 3
    \/ (Len(name) > 3 /\ (name[1] # "-" \/ name[2] # "-"))

\* position (1-based) after the last '/' or '\\' of s, as find_last_of + 1
RECURSIVE LastSep(_, _)
LastSep(s, i) ==
    IF i = 0 THEN 0
    ELSE IF s[i] \in {"/", "\\"} THEN i
    ELSE LastSep(s, i - 1)

Basename(s) == SubSeq(s, LastSep(s, Len(s)) + 1, Len(s))

(***************************************************************************)
(* struct Argument.  The union {fixed_nargs, variable_nargs} is the one    *)
(* field nargs; the code reads it as a count only when fixed is true.      *)
(* help is never read by the operations modelled here and is left out.     *)
(***************************************************************************)
DefaultArgument ==
    [short_name |-> Empty, name |-> Empty, required |-> FALSE,
     default_value |-> Empty, nargs |-> 0, fixed |-> TRUE]

MakeArgument(short, name, required, nargs, default) ==
    [short_name |-> short, name |-> name, required |-> required,
     default_value |-> default, nargs |-> nargs,
     fixed |-> ~(nargs = Plus \/ nargs = Star)]

canonicalName(arg) == IF arg.name = Empty THEN arg.short_name ELSE arg.name

(***************************************************************************)
(* class Any holding a std::string or a std::vector<std::string>           *)
(***************************************************************************)
StringSlot(s) == [type |-> "string", str |-> s, vec |-> <<>>]
VectorSlot(v) == [type |-> "vector", str |-> Empty, vec |-> v]

SlotFor(arg) ==
    IF arg.fixed /\ arg.nargs <= 1
    THEN StringSlot(arg.default_value)
    ELSE VectorSlot(<<>>)

\* std::map::operator[] : the value at k, 0 when k is absent (and inserted)
Put(f, k, v) == [x \in DOMAIN f \cup {k} |-> IF x = k THEN v ELSE f[x]]
Touch(f, k) == IF k \in DOMAIN f THEN f ELSE Put(f, k, 0)

EmptyIndex == [x \in {} |-> 0]

(***************************************************************************)
(* The record of the last call                                             *)
(***************************************************************************)
NoCall == [op |-> "none", err |-> "ok", argv |-> <<>>, keyed |-> {},
           ub |-> FALSE, name |-> Empty, type |-> "none",
           str |-> Empty, vec |-> <<>>, num |-> 0]

Call(op, err) == [NoCall EXCEPT !.op = op, !.err = err]

Init ==
    /\ index_ = EmptyIndex
    /\ ignore_first_ = TRUE
    /\ use_exceptions_ = FALSE
    /\ required_ = 0
    /\ app_name_ = Empty
    /\ final_name_ = Empty
    /\ arguments_ = <<>>
    /\ variables_ = <<>>
    /\ declared = <<>>
    /\ last = NoCall
    /\ exited = FALSE

(***************************************************************************)
(* argumentError: throws when use_exceptions_, else prints and exit(-5).   *)
(***************************************************************************)
argumentError(op, kind) ==
    /\ last' = Call(op, kind)
    /\ exited' = ~use_exceptions_

insertArgument(arg, default) ==
    LET N == Len(arguments_)
        i1 == IF arg.short_name # Empty THEN Put(index_, arg.short_name, N)
              ELSE index_
        i2 == IF arg.name # Empty THEN Put(i1, arg.name, N) ELSE i1
    IN /\ arguments_' = Append(arguments_, arg)
       /\ variables_' = Append(variables_, SlotFor(arg))
       /\ index_' = i2
       /\ required_' = IF arg.required /\ arg.default_value = Empty
                       THEN required_ + 1 ELSE required_
       /\ declared' = Append(declared, default)

\* addArgument(name, nargs, _default, required): _default is not passed on
addArgument(name, nargs, default, required) ==
    /\ ~exited
    /\ IF verifyFails(name)
       THEN /\ argumentError("addArgument", "InvalidArgumentName")
            /\ UNCHANGED <<index_, required_, arguments_, variables_, declared>>
       ELSE /\ IF Len(name) > 2
               THEN insertArgument(MakeArgument(Empty, name, required, nargs, Empty), default)
               ELSE insertArgument(MakeArgument(name, Empty, required, nargs, Empty), default)
            /\ last' = Call("addArgument", "ok")
            /\ UNCHANGED exited
    /\ UNCHANGED <<ignore_first_, use_exceptions_, app_name_, final_name_>>

addArgument2(short, name, nargs, default, required) ==
    /\ ~exited
    /\ IF verifyFails(short) \/ verifyFails(name)
       THEN /\ argumentError("addArgument2", "InvalidArgumentName")
            /\ UNCHANGED <<index_, required_, arguments_, variables_, declared>>
       ELSE /\ insertArgument(MakeArgument(short, name, required, nargs, default), default)
            /\ last' = Call("addArgument2", "ok")
            /\ UNCHANGED exited
    /\ UNCHANGED <<ignore_first_, use_exceptions_, app_name_, final_name_>>

\* addFinalArgument(name, nargs, _default, required): no verify, no default
addFinalArgument(name, nargs, default, required) ==
    /\ ~exited
    /\ final_name_' = delimit(name)
    /\ insertArgument(MakeArgument(Empty, delimit(name), required, nargs, Empty), default)
    /\ last' = Call("addFinalArgument", "ok")
    /\ UNCHANGED <<ignore_first_, use_exceptions_, app_name_, exited>>

appName(name) ==
    /\ ~exited
    /\ app_name_' = name
    /\ last' = NoCall
    /\ UNCHANGED <<index_, ignore_first_, use_exceptions_, required_,
                   final_name_, arguments_, variables_, declared, exited>>

ignoreFirstArgument(b) ==
    /\ ~exited
    /\ ignore_first_' = b
    /\ last' = NoCall
    /\ UNCHANGED <<index_, use_exceptions_, required_, app_name_,
                   final_name_, arguments_, variables_, declared, exited>>

useExceptions(b) ==
    /\ ~exited
    /\ use_exceptions_' = b
    /\ last' = NoCall
    /\ UNCHANGED <<index_, ignore_first_, required_, app_name_,
                   final_name_, arguments_, variables_, declared, exited>>

clear ==
    /\ ~exited
    /\ ignore_first_' = TRUE
    /\ required_' = 0
    /\ index_' = EmptyIndex
    /\ arguments_' = <<>>
    /\ variables_' = <<>>
    /\ declared' = <<>>
    /\ last' = Call("clear", "ok")
    /\ UNCHANGED <<use_exceptions_, app_name_, final_name_, exited>>


(***************************************************************************)
(* parse.  size_t nrequired is kept as the integer r that stands for the   *)
(* value r mod 2^64: it starts at most MaxArgs and is decremented at most  *)
(* once per token, so it is above zero as a size_t exactly when r # 0.     *)
(***************************************************************************)
sizeAboveZero(r) == r # 0

\* Any::castTo<T>() on a slot: returns a copy when the held type is T,
\* throws std::bad_cast otherwise.  The copy is a temporary, so the
\* assignment or push_back the caller applies to it changes no slot.
castFails(slot, type) == slot.type # type

\* line 343: the active argument expects no more inputs
tooManyInputs(active, consumed) == active.fixed /\ active.nargs <= consumed

\* lines 360-361: the active argument has not consumed enough
incomplete(active, consumed) ==
    \/ (active.fixed /\ active.nargs # consumed)
    \/ (~active.fixed /\ active.nargs = Plus /\ consumed < 1)

\* line 369: a non-required key while required arguments are outstanding
unexpectedRequired(active, nrequired) == ~active.required /\ sizeAboveZero(nrequired)

\* tooFewLeft with the key itself counted among the tokens left
tooFewLeftCountingKey(active, left) ==
    \/ (active.fixed /\ active.nargs > left + 1)
    \/ (~active.fixed /\ active.nargs = Plus /\ left + 1 = 0)

\* lines 375-377: too few tokens are left before the reserved final ones
tooFewLeft(active, left) ==
    \/ (active.fixed /\ active.nargs > left)
    \/ (~active.fixed /\ active.nargs = Plus /\ left = 0)

\* one iteration of the first loop of parse
walkStep(argv, nfinal, args, slots, s) ==
    LET el == argv[s.in + 1]
        active_name == canonicalName(s.active)
    IN IF el \notin DOMAIN s.idx
       THEN \* input
            IF tooManyInputs(s.active, s.consumed)
            THEN [s EXCEPT !.err = "TooManyInputs"]
            ELSE LET idx == Touch(s.idx, active_name)
                     want == IF s.active.fixed /\ s.active.nargs = 1
                             THEN "string" ELSE "vector"
                 IN IF castFails(slots[idx[active_name] + 1], want)
                    THEN [s EXCEPT !.err = "bad_cast", !.idx = idx]
                    ELSE [s EXCEPT !.idx = idx, !.consumed = @ + 1, !.in = @ + 1]
       ELSE \* new key
            IF incomplete(s.active, s.consumed)
            THEN [s EXCEPT !.err = "IncompleteArgument"]
            ELSE LET N == s.idx[el]
                     active == args[N + 1]
                     left == Len(argv) - s.in - nfinal - 1
                     s1 == [s EXCEPT !.active = active, !.keyed = @ \cup {N}]
                 IN IF unexpectedRequired(active, s.nrequired)
                    THEN [s1 EXCEPT !.err = "UnexpectedRequiredArgument"]
                    ELSE IF tooFewLeft(active, left)
                    THEN [s1 EXCEPT !.err = "TooFewRemainingInputs"]
                    ELSE [s1 EXCEPT
                            !.nrequired = IF active.required /\ active.default_value = Empty
                                          THEN @ - 1 ELSE @,
                            !.consumed = 0, !.in = @ + 1]

RECURSIVE walk(_, _, _, _, _)
walk(argv, nfinal, args, slots, s) ==
    IF s.err # "ok" \/ ~(s.in < Len(argv) - nfinal) THEN s
    ELSE walk(argv, nfinal, args, slots, walkStep(argv, nfinal, args, slots, s))

\* the second loop of parse: the reserved trailing tokens
RECURSIVE finalLoop(_, _, _, _)
finalLoop(argv, final, slots, s) ==
    IF s.err # "ok" \/ s.in = Len(argv) THEN s
    ELSE LET el == argv[s.in + 1]
             idx == Touch(s.idx, final_name_)
             want == IF final.fixed /\ final.nargs = 1 THEN "string" ELSE "vector"
         IN IF el \in DOMAIN s.idx
            THEN [s EXCEPT !.err = "UnexpectedArgumentSpecifier"]
            ELSE IF castFails(slots[idx[final_name_] + 1], want)
            THEN [s EXCEPT !.err = "bad_cast", !.idx = idx]
            ELSE finalLoop(argv, final, slots,
                           [s EXCEPT !.idx = idx, !.nfinal = @ - 1, !.in = @ + 1])

\* the body of parse over the memory (args, slots) that arguments_ and
\* variables_ are read from
parseOver(argv, args, slots) ==
    LET idx0 == IF final_name_ = Empty THEN index_ ELSE Touch(index_, final_name_)
        final == IF final_name_ = Empty THEN DefaultArgument
                 ELSE args[idx0[final_name_] + 1]
        first == IF ignore_first_ THEN 1 ELSE 0
        nrequired == IF ~final.required THEN required_ ELSE required_ - 1
        nfinal == IF ~final.required THEN 0
                  ELSE IF final.fixed THEN final.nargs
                  ELSE IF final.nargs = Plus THEN 1 ELSE 0
        w == walk(argv, nfinal, args, slots,
                  [in |-> first, active |-> DefaultArgument, consumed |-> 0,
                   nrequired |-> nrequired, nfinal |-> nfinal, idx |-> idx0,
                   keyed |-> {}, err |-> "ok"])
        f == finalLoop(argv, final, slots,
                       [w EXCEPT !.in = Max(first, Len(argv) - nfinal)])
    IN IF w.err # "ok" THEN w
       ELSE IF f.err # "ok" THEN f
       ELSE IF sizeAboveZero(f.nrequired) \/ f.nfinal > 0
       THEN [f EXCEPT !.err = "MissingRequiredArguments"]
       ELSE f

(***************************************************************************)
(* After clear() final_name_ still names the old final argument while      *)
(* arguments_ is empty: arguments_[index_[final_name_]] then reads past    *)
(* the end of the vector.  The read either crashes the process or yields   *)
(* what the freed storage holds, one of staleArguments.                    *)
(***************************************************************************)
readsPastEnd == final_name_ # Empty /\ arguments_ = <<>>

staleArguments ==
    {DefaultArgument, MakeArgument(Empty, final_name_, TRUE, 1, Empty)}

parseOutcome(argv, res, ub) ==
    /\ last' = [Call("parse", res.err) EXCEPT !.argv = argv, !.keyed = res.keyed, !.ub = ub]
    /\ index_' = res.idx
    /\ exited' = IF res.err \in {"ok", "bad_cast"} THEN exited ELSE ~use_exceptions_

parse(argv) ==
    /\ ~exited
    /\ app_name_' = IF app_name_ = Empty /\ ignore_first_ /\ argv # <<>>
                    THEN Basename(argv[1]) ELSE app_name_
    /\ IF readsPastEnd
       THEN \/ /\ last' = [Call("parse", "crash") EXCEPT !.argv = argv, !.ub = TRUE]
               /\ exited' = TRUE
               /\ UNCHANGED index_
            \/ \E g \in staleArguments :
                  parseOutcome(argv, parseOver(argv, <<g>>, <<SlotFor(g)>>), TRUE)
       ELSE parseOutcome(argv, parseOver(argv, arguments_, variables_), FALSE)
    /\ UNCHANGED <<ignore_first_, use_exceptions_, required_, final_name_,
                   arguments_, variables_, declared>>

(***************************************************************************)
(* count and retrieve                                                      *)
(***************************************************************************)
Result(err) == [err |-> err, type |-> "none", str |-> Empty, vec |-> <<>>,
                num |-> 0, ub |-> FALSE]

\* a lookup of name whose index is past the end of arguments_ / variables_
lookupPastEnd(name) ==
    /\ delimit(name) \in DOMAIN index_
    /\ index_[delimit(name)] >= Len(arguments_)

countOver(name, args, slots) ==
    IF delimit(name) \notin DOMAIN index_
    THEN [Result("ok") EXCEPT !.type = "size_t", !.num = 0]
    ELSE LET N == index_[delimit(name)]
             arg == args[N + 1]
             var == slots[N + 1]
         IN IF arg.fixed
            THEN IF castFails(var, "string") THEN Result("bad_cast")
                 ELSE [Result("ok") EXCEPT !.type = "size_t",
                                           !.num = IF var.str = Empty THEN 0 ELSE 1]
            ELSE IF castFails(var, "vector") THEN Result("bad_cast")
                 ELSE [Result("ok") EXCEPT !.type = "size_t", !.num = Len(var.vec)]

Digits == {"0", "1", "2", "3", "4", "5", "6", "7", "8", "9"}
DigitVal(c) == CHOOSE n \in 0..9 : <<"0", "1", "2", "3", "4", "5", "6", "7", "8", "9">>[n + 1] = c

\* std::stoi on an unsigned decimal prefix: acc is the value read so far
RECURSIVE stoiFrom(_, _, _)
stoiFrom(s, i, acc) ==
    IF i > Len(s) \/ s[i] \notin Digits THEN acc
    ELSE stoiFrom(s, i + 1, acc * 10 + DigitVal(s[i]))

stoiFails(s) == s = Empty \/ s[1] \notin Digits
stoi(s) == stoiFrom(s, 1, 0)

\* what a function that flows off its end without a return hands back
GarbageInts == {0, 1}

\* Any::castTo<T>() as retrieve uses it.  For int the held type never
\* matches: castTo(identity<int>) calls std::stoi on the content taken as
\* a string and returns nothing, and castTo itself then returns nothing.
castTo(slot, T) ==
    IF T = "int"
    THEN IF slot.type = "string"
         THEN IF stoiFails(slot.str) THEN {Result("invalid_argument")}
              ELSE {[Result("ok") EXCEPT !.type = "int", !.num = n, !.ub = TRUE] :
                       n \in GarbageInts \cup {stoi(slot.str)}}
                   \cup {[Result("crash") EXCEPT !.ub = TRUE]}
         ELSE {[Result(e) EXCEPT !.ub = TRUE] : e \in {"crash", "invalid_argument"}}
              \cup {[Result("ok") EXCEPT !.type = "int", !.num = n, !.ub = TRUE] :
                       n \in GarbageInts}
    ELSE IF castFails(slot, T) THEN {Result("bad_cast")}
    ELSE {[Result("ok") EXCEPT !.type = T, !.str = slot.str, !.vec = slot.vec]}

retrieveOver(name, T, args, slots) ==
    IF delimit(name) \notin DOMAIN index_ THEN {Result("UnknownArgument")}
    ELSE LET c == countOver(name, args, slots)
         IN IF c.err # "ok" THEN {c}
            ELSE IF c.num # 0 THEN {Result("NoValue")}
            ELSE castTo(slots[index_[delimit(name)] + 1], T)

\* all outcomes of count(name) / retrieve<T>(name) in the current state
countOutcomes(name) ==
    IF lookupPastEnd(name)
    THEN {[Result("crash") EXCEPT !.ub = TRUE]}
         \cup {[countOver(name, <<g>>, <<SlotFor(g)>>) EXCEPT !.ub = TRUE] : g \in staleArguments}
    ELSE {countOver(name, arguments_, variables_)}

retrieveOutcomes(name, T) ==
    IF lookupPastEnd(name)
    THEN {[Result("crash") EXCEPT !.ub = TRUE]}
         \cup UNION {{[r EXCEPT !.ub = TRUE] : r \in retrieveOver(name, T, <<g>>, <<SlotFor(g)>>)} :
                        g \in staleArguments}
    ELSE retrieveOver(name, T, arguments_, variables_)

query(op, name, T, r) ==
    /\ last' = [Call(op, r.err) EXCEPT !.name = name, !.type = T, !.str = r.str,
                                       !.vec = r.vec, !.num = r.num, !.ub = r.ub]
    /\ exited' = (r.err = "crash")
    /\ UNCHANGED <<index_, ignore_first_, use_exceptions_, required_, app_name_,
                   final_name_, arguments_, variables_, declared>>

count(name) ==
    /\ ~exited
    /\ \E r \in countOutcomes(name) : query("count", name, "size_t", r)

retrieve(name, T) ==
    /\ ~exited
    /\ \E r \in retrieveOutcomes(name, T) : query("retrieve", name, T, r)

(***************************************************************************)
(* Inputs of the calls                                                     *)
(***************************************************************************)
RECURSIVE SeqsUpTo(_, _)
SeqsUpTo(S, n) ==
    IF n = 0 THEN {<<>>}
    ELSE LET shorter == SeqsUpTo(S, n - 1)
         IN shorter \cup {Append(t, x) : t \in {u \in shorter : Len(u) = n - 1}, x \in S}

\* the argument vector a caller passes: with the program path in front
\* when the first element is to be skipped, without it otherwise
ArgvOf(t) == IF ignore_first_ THEN <<Prog>> \o t ELSE t

Tokens == {DashA, Count, DashFile, Five}
QueryNames == {<<"a">>, <<"c", "t">>, FileName, <<"z">>}
Types == {"string", "int", "vector"}

(***************************************************************************)
(* Spec: every operation of the class, on a registry of up to MaxArgs      *)
(* arguments: a flag -a, an option -n/--ct and the final argument fi.      *)
(***************************************************************************)
Next ==
    \/ /\ Len(arguments_) < MaxArgs
       /\ \E n \in {DashA, BadShort}, d \in {Empty, DefaultD}, r \in BOOLEAN :
             addArgument(n, 0, d, r)
    \/ /\ Len(arguments_) < MaxArgs
       /\ \E n \in {Count, BadLong}, k \in {1, 2, Plus}, d \in {Empty, Default7} :
             addArgument2(DashN, n, k, d, FALSE)
    \/ /\ Len(arguments_) < MaxArgs
       /\ \E d \in {Empty, DefaultD}, r \in BOOLEAN :
             addFinalArgument(FileName, 1, d, r)
    \/ appName(AppP)
    \/ \E b \in BOOLEAN : ignoreFirstArgument(b)
    \/ \E b \in BOOLEAN : useExceptions(b)
    \/ \E t \in SeqsUpTo(Tokens, MaxArgv) : parse(ArgvOf(t))
    \/ \E n \in QueryNames, T \in Types : retrieve(n, T)
    \/ \E n \in QueryNames : count(n)
    \/ clear

Spec == Init /\ [][Next]_vars

(***************************************************************************)
(* SpecOrder: declarations of required and optional flags -a, -b, -v and   *)
(* of the final argument, followed by parses.                              *)
(***************************************************************************)
OrderTokens == {DashA, DashV, DashFile, Five}

NextOrder ==
    \/ /\ Len(arguments_) < MaxOrderArgs
       /\ \E n \in {DashA, DashB, DashV}, r \in BOOLEAN : addArgument(n, 0, Empty, r)
    \/ /\ Len(arguments_) < MaxOrderArgs
       /\ \E r \in BOOLEAN : addFinalArgument(FileName, 1, Empty, r)
    \/ \E t \in SeqsUpTo(OrderTokens, MaxOrderArgv) : parse(ArgvOf(t))

SpecOrder == Init /\ [][NextOrder]_vars

(***************************************************************************)
(* SpecWalk: declarations over every arity, re-declaration of a name,      *)
(* reset, and parses.                                                      *)
(***************************************************************************)
WalkTokens == {DashA, Count, Five}

NextWalk ==
    \/ /\ Len(arguments_) < MaxWalkArgs
       /\ \E k \in {0, 1, 2}, r \in BOOLEAN : addArgument(DashA, k, Empty, r)
    \/ /\ Len(arguments_) < MaxWalkArgs
       /\ \E k \in {2, Plus, Star} : addArgument(Count, k, Empty, FALSE)
    \/ /\ Len(arguments_) < MaxWalkArgs
       /\ addArgument2(DashA, Count, 1, Empty, FALSE)
    \/ /\ Len(arguments_) < MaxWalkArgs
       /\ \E k \in {1, 2, Plus} : addFinalArgument(FileName, k, Empty, TRUE)
    \/ \E t \in SeqsUpTo(WalkTokens, MaxWalkArgv) : parse(ArgvOf(t))
    \/ clear

SpecWalk == Init /\ [][NextWalk]_vars

(***************************************************************************)
(* Vocabulary of the properties: what an argument vector supplies, read    *)
(* off the vector and the registry alone.                                  *)
(***************************************************************************)
Parsed == last.op = "parse" /\ ~last.ub
ParsedOk == Parsed /\ last.err = "ok"

Registered == 1..Len(arguments_)
KeyTokens(arg) == {arg.short_name, arg.name} \ {Empty}

\* the registry entry a name leads to now (a re-declared name leads to the
\* later entry)
Current(i) == index_[canonicalName(arguments_[i])] = i - 1

\* the entry parse takes as the final argument, 0 when there is none
FinalEntry ==
    IF final_name_ = Empty THEN 0
    ELSE IF final_name_ \in DOMAIN index_ THEN index_[final_name_] + 1 ELSE 1

IsKey(tok) == tok \in DOMAIN index_ \/ (final_name_ # Empty /\ tok = final_name_)
EntryOf(tok) == IF tok \in DOMAIN index_ THEN index_[tok] + 1 ELSE 1

\* the number of trailing tokens reserved for the final argument
Reserved ==
    IF FinalEntry = 0 \/ ~arguments_[FinalEntry].required THEN 0
    ELSE IF arguments_[FinalEntry].fixed THEN arguments_[FinalEntry].nargs
    ELSE IF arguments_[FinalEntry].nargs = Plus THEN 1 ELSE 0

FirstWalked == IF ignore_first_ THEN 2 ELSE 1
LastWalked(argv) == Len(argv) - Reserved
Walked(argv) == FirstWalked..LastWalked(argv)

\* the non-key tokens that follow position p up to the next key or the
\* end of the walked region
RECURSIVE RunAfter(_, _)
RunAfter(argv, p) ==
    IF p + 1 > LastWalked(argv) \/ IsKey(argv[p + 1]) THEN 0
    ELSE 1 + RunAfter(argv, p + 1)

ArityRespected(argv) ==
    /\ \A p \in Walked(argv) :
          IsKey(argv[p]) =>
             LET arg == arguments_[EntryOf(argv[p])]
             IN /\ arg.fixed => RunAfter(argv, p) = arg.nargs
                /\ (~arg.fixed /\ arg.nargs = Plus) => RunAfter(argv, p) >= 1
    /\ Walked(argv) # {} => IsKey(argv[FirstWalked])

(***************************************************************************)
(* C10.  Arity is enforced on every parse: a vector in which some key is   *)
(* not followed by the number of values its arity asks for, or in which a  *)
(* value precedes the first key, fails in the walk.                        *)
(***************************************************************************)

\* C10 as stated: such a vector fails with TooManyInputs,
\* IncompleteArgument or TooFewRemainingInputs.
C10_ArityErrorsAsStated ==
    (Parsed /\ ~ArityRespected(last.argv)) =>
        last.err \in {"TooManyInputs", "IncompleteArgument", "TooFewRemainingInputs"}

\* C10 amended: the failure may also be one raised earlier in the walk,
\* UnexpectedRequiredArgument (checked before the remaining inputs are
\* counted) or bad_cast (a re-declared name leading the active argument to
\* a slot of the other kind).  In particular no such vector parses.
C10_ArityEnforced ==
    (Parsed /\ ~ArityRespected(last.argv)) =>
        last.err \in {"TooManyInputs", "IncompleteArgument", "TooFewRemainingInputs",
                      "UnexpectedRequiredArgument", "bad_cast"}

\* a parse that succeeds with a key of arity 2 as the last key before the
\* end of input, and a parse of a vector that breaks the arity and fails
C10_Witness ==
    /\ ParsedOk
    /\ Len(last.argv) >= 4
    /\ IsKey(last.argv[Len(last.argv) - 2])
    /\ arguments_[EntryOf(last.argv[Len(last.argv) - 2])].nargs = 2
    /\ Reserved = 0

(***************************************************************************)
(* Required arguments and the final argument                               *)
(***************************************************************************)
AppearsAsKey(i, argv) ==
    \E p \in FirstWalked..Len(argv) : argv[p] \in KeyTokens(arguments_[i])

AppearsBefore(i, argv, p) ==
    \E q \in FirstWalked..(p - 1) : argv[q] \in KeyTokens(arguments_[i])

RequiredNoDefault(i) ==
    arguments_[i].required /\ arguments_[i].default_value = Empty

\* a required argument the vector leaves out: a keyed one whose key is
\* nowhere in it, or the final one with too few tokens to fill it
Omitted(i, argv) ==
    /\ RequiredNoDefault(i)
    /\ IF i = FinalEntry
       THEN Len(argv) - (FirstWalked - 1) < Reserved
       ELSE ~AppearsAsKey(i, argv)

\* C4.  Omitting a required argument fails the parse: a vector that leaves
\* out some argument declared required without a default never parses
\* successfully, whatever else it holds.
C4_OmittedRequiredFails ==
    (Parsed /\ \E i \in Registered : Omitted(i, last.argv)) => last.err # "ok"

\* C5.  Required before optional: in a successful parse no key of a
\* non-required argument stands at a place where some required (no
\* default, non-final) argument has not yet appeared as a key.
C5_RequiredBeforeOptional ==
    ParsedOk =>
        \A p \in Walked(last.argv) :
            (IsKey(last.argv[p]) /\ ~arguments_[EntryOf(last.argv[p])].required) =>
                \A i \in Registered :
                    (RequiredNoDefault(i) /\ i # FinalEntry) => AppearsBefore(i, last.argv, p)

\* C6.  The final argument is matched by position only: in a successful
\* parse no token of the vector has made it the active argument of the walk.
C6_FinalNeverKeyed ==
    (ParsedOk /\ FinalEntry # 0) => (FinalEntry - 1) \notin last.keyed

(***************************************************************************)
(* Retrieval                                                               *)
(***************************************************************************)
StringResult(v) == [Result("ok") EXCEPT !.type = "string", !.str = v]
IntResult(n) == [Result("ok") EXCEPT !.type = "int", !.num = n]

\* the name a caller retrieves entry i by
CallerName(i) == strip(canonicalName(arguments_[i]))

\* the values the vector supplies to an entry of arity 1: the token after
\* the last occurrence of its key, or the last token for the required
\* final argument
Supplied(i, argv) ==
    IF i = FinalEntry
    THEN IF arguments_[i].required /\ Len(argv) >= FirstWalked
         THEN {argv[Len(argv)]} ELSE {}
    ELSE {argv[p + 1] : p \in {q \in FirstWalked..(Len(argv) - 1) :
                                 /\ argv[q] \in KeyTokens(arguments_[i])
                                 /\ \A r \in (q + 1)..Len(argv) :
                                       argv[r] \notin KeyTokens(arguments_[i])}}

NeverSupplied(i, argv) ==
    IF i = FinalEntry THEN Reserved = 0 ELSE ~AppearsAsKey(i, argv)

\* C1.  Values supplied on the command line are retrievable: after a
\* successful parse, retrieve<string> of an argument of arity 1 returns
\* the value the vector supplies for it, and retrieve<int> the integer
\* that value denotes.
C1_SuppliedValueRetrieved ==
    ParsedOk =>
        \A i \in Registered :
            (arguments_[i].fixed /\ arguments_[i].nargs = 1 /\ Current(i)) =>
                \A v \in Supplied(i, last.argv) :
                    /\ retrieveOutcomes(CallerName(i), "string") = {StringResult(v)}
                    /\ ~stoiFails(v) =>
                          retrieveOutcomes(CallerName(i), "int") = {IntResult(stoi(v))}

\* C2.  Default round trip: after a successful parse of a vector that
\* never supplies an argument declared with arity <= 1 and a non-empty
\* default d, retrieve<string> returns d.
C2_DefaultRoundTrip ==
    ParsedOk =>
        \A i \in Registered :
            (/\ arguments_[i].fixed /\ arguments_[i].nargs <= 1 /\ Current(i)
             /\ declared[i] # Empty
             /\ NeverSupplied(i, last.argv)) =>
                retrieveOutcomes(CallerName(i), "string") = {StringResult(declared[i])}

\* what retrieve<T> is to give for a name, T being the kind of its slot
Declared(name) == delimit(name) \in DOMAIN index_
SlotOf(name) == variables_[index_[delimit(name)] + 1]
SlotEmpty(slot) == IF slot.type = "string" THEN slot.str = Empty ELSE slot.vec = <<>>

\* C3.  Retrieval outcomes: retrieve<T>(name) fails with UnknownArgument
\* exactly when name is not declared, for a declared name fails with
\* NoValue exactly when its slot is empty, and otherwise returns the
\* slot's value.
C3_RetrievalOutcomes ==
    (last.op = "retrieve" /\ ~last.ub) =>
        IF ~Declared(last.name) THEN last.err = "UnknownArgument"
        ELSE (last.type = SlotOf(last.name).type) =>
                IF SlotEmpty(SlotOf(last.name)) THEN last.err = "NoValue"
                ELSE /\ last.err = "ok"
                     /\ last.str = SlotOf(last.name).str
                     /\ last.vec = SlotOf(last.name).vec

\* C7.  reset() restores the initial configuration: after clear() the
\* state that declaration, parsing, retrieval and usage read is that of a
\* newly constructed parser.
C7_ClearRestoresInitial ==
    last.op = "clear" =>
        /\ index_ = EmptyIndex
        /\ arguments_ = <<>>
        /\ variables_ = <<>>
        /\ required_ = 0
        /\ ignore_first_ = TRUE
        /\ final_name_ = Empty
        /\ app_name_ = Empty

\* C8.  count(name) is total and follows the slot kind: 0 for an
\* undeclared name, 0 or 1 for a single-string slot by emptiness, the
\* list length for a list slot; it fails for no declared argument.
C8_CountTotal ==
    (last.op = "count" /\ ~last.ub) =>
        /\ last.err = "ok"
        /\ last.num = IF ~Declared(last.name) THEN 0
                      ELSE IF SlotOf(last.name).type = "string"
                      THEN (IF SlotOf(last.name).str = Empty THEN 0 ELSE 1)
                      ELSE Len(SlotOf(last.name).vec)

\* C9.  Flag presence is observable: after a successful parse, count of
\* an argument of arity 0 is at least 1 when its key is in the vector and
\* 0 when it is not.
C9_FlagPresence ==
    ParsedOk =>
        \A i \in Registered :
            (arguments_[i].fixed /\ arguments_[i].nargs = 0 /\ Current(i) /\ i # FinalEntry) =>
                \A r \in countOutcomes(CallerName(i)) :
                    /\ r.err = "ok"
                    /\ IF AppearsAsKey(i, last.argv) THEN r.num >= 1 ELSE r.num = 0

====
